---- MODULE Spec2Model ----
(***************************************************************************)
(* Model of password_generator.py: the password generator                  *)
(* (generate_secure_password), the clipboard helper (copy_to_clipboard)    *)
(* and the interactive command line (the __main__ block).                  *)
(*                                                                         *)
(* Strings are sequences of one-character strings.  The character classes  *)
(* of the string module are represented by small subsets; nothing in the   *)
(* program depends on which characters a class holds beyond the class      *)
(* being non-empty and the four classes being disjoint.                    *)
(*                                                                         *)
(* Two specifications share the variables:                                 *)
(*   SpecGen  generate_secure_password called directly with any integer,   *)
(*            in two steps (draw, shuffle+join);                           *)
(*   Spec     one run of the command line, from the first prompt to exit.  *)
(***************************************************************************)
EXTENDS Integers, Sequences, FiniteSets, TLC

VARIABLES
    \* ---- generate_secure_password ----
    gpc,                \* position in the function: "idle" (not called), "call", "filled", "returned"
    length,             \* the argument of the call
    password_list,      \* the local list of characters
    drawn,              \* history: password_list as it was before random.shuffle
    origin,             \* history: origin[p] = index in drawn of the element now at p
    draws,              \* history: number of random.choice calls made
    result,             \* the returned value (None or a string)
    \* ---- __main__ ----
    pc,                 \* "prompt_length", "generate", "prompt_copy", "done", "exited", "crashed", "off"
    desired_length_str, \* the last line read at the length prompt
    desired_length,     \* int(desired_length_str), when it was assigned
    generated_password, \* the value returned by generate_secure_password
    copy_choice,        \* the last answer at the copy prompt, lower-cased
    out,                \* what the last step printed
    displayed,          \* history: the generated password has been printed
    interrupted,        \* history: KeyboardInterrupt was raised inside input()
    \* ---- copy_to_clipboard and its environment ----
    pyperclip,          \* TRUE when the import of pyperclip succeeded
    platform,           \* sys.platform
    clipboard,          \* content of the OS clipboard
    attempts,           \* history: the mechanisms tried and how each ended
    copy_calls,         \* history: number of calls of copy_to_clipboard
    copy_result         \* the value returned by copy_to_clipboard, once called

genvars == <<gpc, length, password_list, drawn, origin, draws, result>>
clivars == <<pc, desired_length_str, desired_length, generated_password,
             copy_choice, out, displayed, interrupted>>
clipvars == <<pyperclip, platform, clipboard, attempts, copy_calls, copy_result>>
vars == <<gpc, length, password_list, drawn, origin, draws, result,
          pc, desired_length_str, desired_length, generated_password,
          copy_choice, out, displayed, interrupted,
          pyperclip, platform, clipboard, attempts, copy_calls, copy_result>>

----------------------------------------------------------------------------
(* Bounds *)

\* largest password length requested
MaxLen == 5
\* how far below the minimum length a direct call may go
MaxBelow == 5
\* largest password length typed at the prompt
MaxPromptLen == 4

----------------------------------------------------------------------------
(* Values *)

None == [kind |-> "None", val |-> <<>>]
Str(s) == [kind |-> "str", val |-> s]
Unbound == [bound |-> FALSE, val |-> 0]
Bound(n) == [bound |-> TRUE, val |-> n]

\* bool(x) of a str-or-None value: None and "" are falsy
Truthy(x) == x.kind = "str" /\ x.val # <<>>

----------------------------------------------------------------------------
(* Character classes *)

lowercase_chars == {"a", "b"}
uppercase_chars == {"A"}
digits == {"7"}
special_chars == {"!"}
all_chars == lowercase_chars \cup uppercase_chars \cup digits \cup special_chars

----------------------------------------------------------------------------
(* generate_secure_password *)

\* the guard of the early return
InvalidLengthMutant(len) == len < 3
InvalidLength(len) == len < 4

\* the four guaranteed characters, one random.choice per class, in the
\* order the list literal is written
GuaranteedListsMutant ==
    {<<c1, c2, c3, c4>> : c1 \in lowercase_chars, c2 \in uppercase_chars,
                          c3 \in digits, c4 \in all_chars}
GuaranteedLists ==
    {<<c1, c2, c3, c4>> : c1 \in lowercase_chars, c2 \in uppercase_chars,
                          c3 \in digits, c4 \in special_chars}

\* range(length - len(password_list)): number of iterations of the fill loop
FillCountMutant(len, list) == len - Len(list) + 1
FillCount(len, list) == IF len - Len(list) > 0 THEN len - Len(list) ELSE 0

\* the lists the fill loop can produce from list in k iterations
RECURSIVE Fills(_, _)
Fills(list, k) ==
    IF k <= 0 THEN {list}
    ELSE UNION {Fills(Append(list, c), k - 1) : c \in all_chars}

\* x[i], x[j] = x[j], x[i]
Swap(x, i, j) == [x EXCEPT ![i] = x[j], ![j] = x[i]]

\* the values of j = randbelow(i + 1) for the (1-based) position i
RandBelowRangeMutant(i) == 1..(i - 1)
RandBelowRange(i) == 1..i

\* random.shuffle(x): for i from the last position down to the second,
\* swap x[i] with x[j], j drawn from the positions up to i.  The set of
\* lists the loop can leave, started at position i.
ShuffleOutcomesMutant(x, i) == {x}
RECURSIVE ShuffleOutcomes(_, _)
ShuffleOutcomes(x, i) ==
    IF i < 2 THEN {x}
    ELSE UNION {ShuffleOutcomes(Swap(x, i, j), i - 1) : j \in RandBelowRange(i)}

\* "".join(list)
RECURSIVE Join(_)
Join(list) == IF list = <<>> THEN <<>> ELSE <<Head(list)>> \o Join(Tail(list))

\* list elements paired with their index, to follow them through the shuffle
Tagged(list) == [i \in DOMAIN list |-> <<list[i], i>>]
Chars(tagged) == [i \in DOMAIN tagged |-> tagged[i][1]]
Origins(tagged) == [i \in DOMAIN tagged |-> tagged[i][2]]

\* every outcome of one whole call
GenerateOutcomes(len) ==
    IF InvalidLength(len)
    THEN {[result |-> None, draws |-> 0]}
    ELSE UNION {
           {[result |-> Str(Join(Chars(s))), draws |-> Len(f)] :
                s \in ShuffleOutcomes(Tagged(f), Len(f))} :
           f \in UNION {Fills(g, FillCount(len, g)) : g \in GuaranteedLists}}

----------------------------------------------------------------------------
(* SpecGen: direct calls of generate_secure_password *)

CliOff ==
    /\ pc = "off"
    /\ desired_length_str = <<>>
    /\ desired_length = Unbound
    /\ generated_password = None
    /\ copy_choice = <<>>
    /\ out = <<>>
    /\ displayed = FALSE
    /\ interrupted = FALSE
    /\ pyperclip = FALSE
    /\ platform = "linux"
    /\ clipboard = <<>>
    /\ attempts = <<>>
    /\ copy_calls = 0
    /\ copy_result = FALSE

InitGen ==
    /\ gpc = "call"
    /\ length \in (4 - MaxBelow)..MaxLen
    /\ password_list = <<>>
    /\ drawn = <<>>
    /\ origin = <<>>
    /\ draws = 0
    /\ result = None
    /\ CliOff

\* lines 14-16: the early return
GenReject ==
    /\ gpc = "call"
    /\ InvalidLength(length)
    /\ gpc' = "returned"
    /\ result' = None
    /\ UNCHANGED <<length, password_list, drawn, origin, draws>>
    /\ UNCHANGED <<clivars, clipvars>>

\* lines 19-38: the guaranteed characters and the fill loop
GenDraw ==
    /\ gpc = "call"
    /\ ~InvalidLength(length)
    /\ \E g \in GuaranteedLists :
         \E f \in Fills(g, FillCount(length, g)) :
            /\ password_list' = f
            /\ drawn' = f
            /\ origin' = [i \in DOMAIN f |-> i]
            /\ draws' = Len(f)
    /\ gpc' = "filled"
    /\ UNCHANGED <<length, result>>
    /\ UNCHANGED <<clivars, clipvars>>

\* lines 41-44: shuffle in place and join
GenShuffle ==
    /\ gpc = "filled"
    /\ \E s \in ShuffleOutcomes(Tagged(password_list), Len(password_list)) :
            /\ password_list' = Chars(s)
            /\ origin' = Origins(s)
            /\ result' = Str(Join(Chars(s)))
    /\ gpc' = "returned"
    /\ UNCHANGED <<length, drawn, draws>>
    /\ UNCHANGED <<clivars, clipvars>>

NextGen == GenReject \/ GenDraw \/ GenShuffle

SpecGen == InitGen /\ [][NextGen]_vars

----------------------------------------------------------------------------
(* Text helpers of the command line *)

Whitespace == {" "}
DigitSeq == <<"0", "1", "2", "3", "4", "5", "6", "7", "8", "9">>
DigitChars == {DigitSeq[i] : i \in DOMAIN DigitSeq}
DigitVal(c) == (CHOOSE i \in DOMAIN DigitSeq : DigitSeq[i] = c) - 1

Front(s) == SubSeq(s, 1, Len(s) - 1)
Last(s) == s[Len(s)]

\* str.strip()
RECURSIVE LStrip(_)
LStrip(s) == IF s # <<>> /\ Head(s) \in Whitespace THEN LStrip(Tail(s)) ELSE s
RECURSIVE RStrip(_)
RStrip(s) == IF s # <<>> /\ Last(s) \in Whitespace THEN RStrip(Front(s)) ELSE s
Strip(s) == RStrip(LStrip(s))

\* value of a non-empty run of decimal digits
RECURSIVE DecimalValue(_)
DecimalValue(s) ==
    IF s = <<>> THEN 0 ELSE DecimalValue(Front(s)) * 10 + DigitVal(Last(s))

\* int(s): surrounding whitespace is dropped, one optional sign, then at
\* least one digit and nothing else; anything else raises ValueError
ParseInt(s) ==
    LET t == Strip(s)
        signed == t # <<>> /\ Head(t) \in {"+", "-"}
        body == IF signed THEN Tail(t) ELSE t
        neg == signed /\ Head(t) = "-"
    IN  IF body # <<>> /\ \A i \in DOMAIN body : body[i] \in DigitChars
        THEN [ok |-> TRUE,
              val |-> IF neg THEN 0 - DecimalValue(body) ELSE DecimalValue(body)]
        ELSE [ok |-> FALSE, val |-> 0]

\* str.lower()
UpperSeq == <<"A", "B", "E", "N", "O", "S", "Y">>
LowerSeq == <<"a", "b", "e", "n", "o", "s", "y">>
LowerChar(c) ==
    IF \E i \in DOMAIN UpperSeq : UpperSeq[i] = c
    THEN LowerSeq[CHOOSE i \in DOMAIN UpperSeq : UpperSeq[i] = c]
    ELSE c
Lower(s) == [i \in DOMAIN s |-> LowerChar(s[i])]

\* the lines typed at the length prompt: lines that int() rejects, lines
\* it turns into an integer below 4, and lines it turns into a length of at
\* most MaxPromptLen, some of them with a sign, leading zeros or blanks
LengthLines ==
    {<<>>, <<" ">>, <<"a">>, <<"4", "a">>, <<"4", ".", "5">>, <<"4", " ", "4">>,
     <<"-">>, <<"-", "-", "4">>, <<"+", " ", "4">>,
     <<"-", "1">>, <<"-", "4">>, <<"0">>, <<"3">>, <<" ", "3">>, <<"+", "3">>,
     <<"4">>, <<" ", "4", " ">>, <<"0", "4">>,
     <<"5">>, <<"+", "5">>, <<"6">>, <<"6", " ">>, <<"7">>}
LengthInputs ==
    {s \in LengthLines : ~ParseInt(s).ok \/ ParseInt(s).val <= MaxPromptLen}

\* the answers typed at the copy prompt
CopyInputs ==
    {<<"y", "e", "s">>, <<"Y", "E", "S">>, <<"Y", "e", "s">>,
     <<"n", "o">>, <<"N", "O">>,
     <<"y">>, <<>>, <<"y", "e", "s", " ">>}

\* the comparisons of the copy loop
IsYesMutant(choice) == choice # <<>> /\ Head(choice) = "y"
IsYes(choice) == choice = <<"y", "e", "s">>
IsNo(choice) == choice = <<"n", "o">>

\* desired_length < 4 in the prompt loop
TooShortMutant(n) == n < 3
TooShort(n) == n < 4

\* printed lines
Msg(m) == [msg |-> m, text |-> <<>>]
MsgT(m, s) == [msg |-> m, text |-> s]

Banner == <<Msg("Developed by Akash Madhukar"), Msg("------"),
            Msg("--- Secure Password Generator ---")>>
Closing == <<Msg("======"), Msg("Connect with me on LinkedIn:"),
             Msg("Akash Madhukar"), Msg("Profile"), Msg("======"),
             Msg("Thank you for using the Secure Password Generator!"),
             Msg("Stay secure!")>>

----------------------------------------------------------------------------
(* copy_to_clipboard *)

Platforms == {"win32", "darwin", "linux", "other"}
\* how running an external command can end: it runs and exits with 0, it
\* runs and exits with another status, or the executable is not found
CommandOutcomes == {"ok", "error", "missing"}
\* how pyperclip.copy can end
PyperclipOutcomes == {"ok", "PyperclipException"}

Attempt(mech, outcome) == [mech |-> mech, outcome |-> outcome]

\* lines 61-94: the platform fallbacks.  cmd1 is the outcome of the first
\* command of the platform, cmd2 of xsel.
Fallback(payload, plat, cmd1, cmd2) ==
    IF plat = "win32" THEN
        \* subprocess.run(check=True): any failure raises, caught at line 92
        IF cmd1 = "ok"
        THEN [ret |-> TRUE, out |-> <<Msg("copied (Windows fallback)")>>,
              attempts |-> <<Attempt("clip.exe", cmd1)>>, written |-> <<payload>>]
        ELSE [ret |-> FALSE, out |-> <<Msg("Error during clipboard copy fallback")>>,
              attempts |-> <<Attempt("clip.exe", cmd1)>>, written |-> <<>>]
    ELSE IF plat = "darwin" THEN
        \* Popen raises only when pbcopy is missing; communicate() does not
        \* look at the exit status
        IF cmd1 = "missing"
        THEN [ret |-> FALSE, out |-> <<Msg("Error during clipboard copy fallback")>>,
              attempts |-> <<Attempt("pbcopy", cmd1)>>, written |-> <<>>]
        ELSE [ret |-> TRUE, out |-> <<Msg("copied (macOS fallback)")>>,
              attempts |-> <<Attempt("pbcopy", cmd1)>>,
              written |-> IF cmd1 = "ok" THEN <<payload>> ELSE <<>>]
    ELSE IF plat = "linux" THEN
        IF cmd1 = "ok"
        THEN [ret |-> TRUE, out |-> <<Msg("copied (Linux - xclip fallback)")>>,
              attempts |-> <<Attempt("xclip", cmd1)>>, written |-> <<payload>>]
        ELSE IF cmd1 = "error"
        \* CalledProcessError is not FileNotFoundError: line 92 catches it
        THEN [ret |-> FALSE, out |-> <<Msg("Error during clipboard copy fallback")>>,
              attempts |-> <<Attempt("xclip", cmd1)>>, written |-> <<>>]
        ELSE IF cmd2 = "ok"
        THEN [ret |-> TRUE, out |-> <<Msg("copied (Linux - xsel fallback)")>>,
              attempts |-> <<Attempt("xclip", cmd1), Attempt("xsel", cmd2)>>,
              written |-> <<payload>>]
        ELSE IF cmd2 = "error"
        THEN [ret |-> FALSE, out |-> <<Msg("Error during clipboard copy fallback")>>,
              attempts |-> <<Attempt("xclip", cmd1), Attempt("xsel", cmd2)>>,
              written |-> <<>>]
        ELSE [ret |-> FALSE, out |-> <<Msg("Please install 'xclip' or 'xsel'")>>,
              attempts |-> <<Attempt("xclip", cmd1), Attempt("xsel", cmd2)>>,
              written |-> <<>>]
    ELSE [ret |-> FALSE, out |-> <<Msg("not natively supported on this OS")>>,
          attempts |-> <<>>, written |-> <<>>]

\* lines 46-94.  installed: pyperclip was imported; pyp: how pyperclip.copy
\* ends when called.
copy_to_clipboard(text, installed, pyp, plat, cmd1, cmd2) ==
    IF installed /\ pyp = "ok"
    THEN [ret |-> TRUE, out |-> <<Msg("copied (via pyperclip)")>>,
          attempts |-> <<Attempt("pyperclip", pyp)>>, written |-> <<text>>]
    ELSE LET fb == Fallback(Strip(text), plat, cmd1, cmd2)
             pre == IF installed
                    THEN [out |-> <<Msg("Could not copy to clipboard via pyperclip"),
                                    Msg("Trying fallback methods...")>>,
                          attempts |-> <<Attempt("pyperclip", pyp)>>]
                    ELSE [out |-> <<>>, attempts |-> <<>>]
         IN  [ret |-> fb.ret, out |-> pre.out \o fb.out,
              attempts |-> pre.attempts \o fb.attempts, written |-> fb.written]

----------------------------------------------------------------------------
(* Spec: one run of the command line *)

Init ==
    /\ gpc = "idle"
    /\ length = 0
    /\ password_list = <<>>
    /\ drawn = <<>>
    /\ origin = <<>>
    /\ draws = 0
    /\ result = None
    /\ pc = "prompt_length"
    /\ desired_length_str = <<>>
    /\ desired_length = Unbound
    /\ generated_password = None
    /\ copy_choice = <<>>
    /\ out = Banner
    /\ displayed = FALSE
    /\ interrupted = FALSE
    /\ pyperclip \in BOOLEAN
    /\ platform \in Platforms
    /\ clipboard = <<>>
    /\ attempts = <<>>
    /\ copy_calls = 0
    /\ copy_result = FALSE

\* lines 103-112: one pass of the length loop
ReadLength ==
    /\ pc = "prompt_length"
    /\ \E s \in LengthInputs :
         LET p == ParseInt(s) IN
         /\ desired_length_str' = s
         /\ IF ~p.ok
            THEN /\ out' = <<Msg("Invalid input. Please enter a number for the length.")>>
                 /\ UNCHANGED <<pc, desired_length>>
            ELSE /\ desired_length' = Bound(p.val)
                 /\ IF TooShort(p.val)
                    THEN /\ out' = <<Msg("Password length must be at least 4. Please try again.")>>
                         /\ UNCHANGED pc
                    ELSE /\ out' = <<>>
                         /\ pc' = "generate"
    /\ UNCHANGED <<generated_password, copy_choice, displayed, interrupted>>
    /\ UNCHANGED <<genvars, clipvars>>

\* lines 113-115: Ctrl+C inside the input() of the length loop
InterruptLength ==
    /\ pc = "prompt_length"
    /\ interrupted' = TRUE
    /\ out' = <<Msg("Exiting password generator. Goodbye!")>>
    /\ pc' = "exited"
    /\ UNCHANGED <<desired_length_str, desired_length, generated_password,
                   copy_choice, displayed>>
    /\ UNCHANGED <<genvars, clipvars>>

\* line 105: end of input inside input(): EOFError, which no except clause
\* of the loop names
EofLength ==
    /\ pc = "prompt_length"
    /\ out' = <<Msg("Traceback: EOFError")>>
    /\ pc' = "crashed"
    /\ UNCHANGED <<desired_length_str, desired_length, generated_password,
                   copy_choice, displayed, interrupted>>
    /\ UNCHANGED <<genvars, clipvars>>

\* lines 117-125 (and 138-148 when the password is falsy)
Generate ==
    /\ pc = "generate"
    /\ \E o \in GenerateOutcomes(desired_length.val) :
         /\ gpc' = "returned"
         /\ length' = desired_length.val
         /\ result' = o.result
         /\ draws' = o.draws
         /\ generated_password' = o.result
         /\ IF Truthy(o.result)
            THEN /\ out' = <<MsgT("Your generated password", o.result.val)>>
                            \o (IF ~pyperclip
                                THEN <<Msg("Note: 'pyperclip' library not found."),
                                       Msg("To enable robust clipboard copying, install it")>>
                                ELSE <<>>)
                 /\ displayed' = TRUE
                 /\ pc' = "prompt_copy"
            ELSE /\ out' = <<Msg("Password generation failed")>> \o Closing
                 /\ displayed' = FALSE
                 /\ pc' = "done"
    /\ UNCHANGED <<password_list, drawn, origin>>
    /\ UNCHANGED <<desired_length_str, desired_length, copy_choice, interrupted>>
    /\ UNCHANGED clipvars

\* lines 126-137: one pass of the copy loop, and lines 141-148 when it ends
AnswerCopy ==
    /\ pc = "prompt_copy"
    /\ \E s \in CopyInputs :
         LET choice == Lower(s) IN
         /\ copy_choice' = choice
         /\ IF IsYes(choice)
            THEN \E pyp \in PyperclipOutcomes, cmd1 \in CommandOutcomes,
                    cmd2 \in CommandOutcomes :
                   LET r == copy_to_clipboard(generated_password.val, pyperclip,
                                              pyp, platform, cmd1, cmd2)
                   IN  /\ copy_calls' = copy_calls + 1
                       /\ copy_result' = r.ret
                       /\ attempts' = attempts \o r.attempts
                       /\ clipboard' = IF r.written # <<>> THEN r.written[1]
                                       ELSE clipboard
                       /\ out' = r.out
                                 \o (IF ~r.ret
                                     THEN <<Msg("Failed to copy password automatically. Please copy it manually:"),
                                            MsgT("password", generated_password.val)>>
                                     ELSE <<>>)
                                 \o Closing
                       /\ pc' = "done"
            ELSE IF IsNo(choice)
            THEN /\ out' = <<Msg("Password not copied.")>> \o Closing
                 /\ pc' = "done"
                 /\ UNCHANGED <<clipboard, attempts, copy_calls, copy_result>>
            ELSE /\ out' = <<Msg("Invalid choice. Please enter 'yes' or 'no'.")>>
                 /\ UNCHANGED pc
                 /\ UNCHANGED <<clipboard, attempts, copy_calls, copy_result>>
    /\ UNCHANGED <<desired_length_str, desired_length, generated_password,
                   displayed, interrupted>>
    /\ UNCHANGED <<pyperclip, platform>>
    /\ UNCHANGED genvars

\* line 127: Ctrl+C inside the input() of the copy loop; no try block
\* encloses it, so KeyboardInterrupt leaves the program with a traceback
InterruptCopy ==
    /\ pc = "prompt_copy"
    /\ interrupted' = TRUE
    /\ out' = <<Msg("Traceback: KeyboardInterrupt")>>
    /\ pc' = "crashed"
    /\ UNCHANGED <<desired_length_str, desired_length, generated_password,
                   copy_choice, displayed>>
    /\ UNCHANGED <<genvars, clipvars>>

\* line 127: end of input inside input()
EofCopy ==
    /\ pc = "prompt_copy"
    /\ out' = <<Msg("Traceback: EOFError")>>
    /\ pc' = "crashed"
    /\ UNCHANGED <<desired_length_str, desired_length, generated_password,
                   copy_choice, displayed, interrupted>>
    /\ UNCHANGED <<genvars, clipvars>>

Next ==
    \/ ReadLength
    \/ InterruptLength
    \/ EofLength
    \/ Generate
    \/ AnswerCopy
    \/ InterruptCopy
    \/ EofCopy

Spec == Init /\ [][Next]_vars

----------------------------------------------------------------------------
(* Properties of generate_secure_password (checked under SpecGen) *)

ClassCount(s, class) == Cardinality({i \in DOMAIN s : s[i] \in class})
Classes == {lowercase_chars, uppercase_chars, digits, special_chars}
ClassPattern(s) ==
    [i \in DOMAIN s |->
        IF s[i] \in lowercase_chars THEN "lower"
        ELSE IF s[i] \in uppercase_chars THEN "upper"
        ELSE IF s[i] \in digits THEN "digit"
        ELSE IF s[i] \in special_chars THEN "special" ELSE "other"]

\* C1: a call with length >= 4 returns a string of exactly that length,
\* whatever the random choices and the shuffle were.
C1_LengthExact ==
    (gpc = "returned" /\ length >= 4) =>
        (result.kind = "str" /\ Len(result.val) = length)

C1_Witness ==
    gpc = "returned" /\ length = MaxLen /\ length > 4 /\ draws = length
    /\ result.kind = "str" /\ Len(result.val) = MaxLen

\* C2: a call with length >= 4 returns a string holding at least one
\* lowercase letter, one uppercase letter, one digit and one punctuation
\* character.
C2_AllClasses ==
    (gpc = "returned" /\ length >= 4) =>
        (result.kind = "str" /\ \A class \in Classes : ClassCount(result.val, class) >= 1)

C2_Witness ==
    gpc = "returned" /\ length > 4 /\ result.kind = "str"
    /\ ClassCount(result.val, lowercase_chars) = length - 3
    /\ ClassCount(result.val, special_chars) = 1

\* C3: a call with length < 4 returns None, never a string, and draws no
\* random character.
C3_InvalidLength ==
    length < 4 =>
        /\ draws = 0
        /\ password_list = <<>>
        /\ result = None
        /\ gpc \in {"call", "returned"}

C3_Witness == gpc = "returned" /\ length < 0 /\ result = None /\ draws = 0

\* C4: a call with length 4 returns four characters, exactly one of each
\* class, and the order of the classes in the output is not fixed: more
\* than one order can come out of the shuffle of the same four characters.
C4_LengthFour ==
    /\ (gpc = "returned" /\ length = 4) =>
          /\ result.kind = "str" /\ Len(result.val) = 4
          /\ \A class \in Classes : ClassCount(result.val, class) = 1
    /\ (gpc = "filled" /\ length = 4) =>
          Cardinality({ClassPattern(Chars(s)) :
                         s \in ShuffleOutcomes(Tagged(password_list), Len(password_list))}) > 1

C4_Witness ==
    gpc = "returned" /\ length = 4 /\ result.kind = "str" /\ Len(result.val) = 4
    /\ ClassPattern(result.val) = <<"special", "digit", "upper", "lower">>

\* C9: the shuffle is effective.  Before the shuffle, each of the four
\* guaranteed characters (positions 1..4 of the list) can be taken to each
\* position of the list by some outcome of the shuffle; after it, the
\* output is a permutation of the characters drawn before it.
C9_ShuffleEffective ==
    /\ (gpc = "filled") =>
          \A g \in 1..4 : \A p \in 1..Len(password_list) :
             \E s \in ShuffleOutcomes(Tagged(password_list), Len(password_list)) :
                s[p][2] = g
    /\ (gpc = "returned" /\ result.kind = "str") =>
          /\ Len(result.val) = Len(drawn)
          /\ DOMAIN origin = DOMAIN drawn
          /\ \A i \in DOMAIN drawn : \E p \in DOMAIN origin : origin[p] = i
          /\ \A p \in DOMAIN origin : origin[p] \in DOMAIN drawn
          /\ \A p \in DOMAIN origin : result.val[p] = drawn[origin[p]]

C9_Witness ==
    gpc = "returned" /\ length = MaxLen /\ length > 4 /\ result.kind = "str"
    /\ origin[length] = 1 /\ origin[1] = 4 /\ origin[2] = 5

----------------------------------------------------------------------------
(* Properties of the command line (checked under Spec) *)

InvalidInputMsg == Msg("Invalid input. Please enter a number for the length.")
TooShortMsg == Msg("Password length must be at least 4. Please try again.")
FailedCopyMsg == Msg("Failed to copy password automatically. Please copy it manually:")

Contains(seq, m) == \E i \in DOMAIN seq : seq[i] = m
EndsWith(seq, tail) ==
    Len(seq) >= Len(tail) /\ SubSeq(seq, Len(seq) - Len(tail) + 1, Len(seq)) = tail

\* the last line read at the length prompt is not an integer >= 4
LastLineInvalid == ~ParseInt(desired_length_str).ok \/ ParseInt(desired_length_str).val < 4

\* C5: a line at the length prompt that is not a number, or is an integer
\* below 4, is reported and the prompt is shown again (the program ends
\* there only by an interrupt or the end of input); the loop is left, and
\* generate_secure_password is called, only with an integer >= 4.
C5_PromptLoop ==
    /\ LastLineInvalid =>
          /\ gpc = "idle" /\ draws = 0 /\ generated_password = None
          /\ \/ pc = "prompt_length" /\ out = Banner /\ desired_length_str = <<>>
             \/ /\ pc = "prompt_length"
                /\ out = <<IF ParseInt(desired_length_str).ok
                           THEN TooShortMsg ELSE InvalidInputMsg>>
             \/ pc = "exited" /\ interrupted
             \/ pc = "crashed" /\ out = <<Msg("Traceback: EOFError")>>
    /\ pc \in {"generate", "prompt_copy", "done"} =>
          /\ ~LastLineInvalid
          /\ desired_length = Bound(ParseInt(desired_length_str).val)
    /\ gpc # "idle" => (length >= 4 /\ length = desired_length.val)

C5_Witness ==
    /\ pc = "prompt_length"
    /\ desired_length_str = <<"-", "4">>
    /\ desired_length = Bound(0 - 4)
    /\ out = <<TooShortMsg>>

\* C6: an interrupt raised while the program waits for input, at the length
\* prompt or at the copy prompt, ends the program gracefully.
C6_GracefulInterrupt ==
    interrupted =>
        (pc = "exited" /\ out = <<Msg("Exiting password generator. Goodbye!")>>)

\* no mechanism tried by copy_to_clipboard completed without error
NoMechanismSucceeded == \A i \in DOMAIN attempts : attempts[i].outcome # "ok"

\* C7: after the answer 'yes', when the copy did not succeed, the failure
\* is reported, the generated password is printed again and the program
\* goes on to its closing output.
C7_CopyFailureReported ==
    (copy_calls > 0 /\ NoMechanismSucceeded) =>
        /\ pc = "done"
        /\ Contains(out, FailedCopyMsg)
        /\ Contains(out, MsgT("password", generated_password.val))
        /\ EndsWith(out, Closing)

\* C8: copy_to_clipboard returns success exactly when one of the
\* mechanisms it tried completed without error.
C8_ReturnMatches ==
    copy_calls > 0 => (copy_result <=> ~NoMechanismSucceeded)

\* C10: copy_to_clipboard is called at most once, only after the password
\* was generated and printed and the answer was 'yes' in any letter case;
\* 'no' ends the prompt and any other answer repeats it, both without any
\* clipboard access.
C10_CopyOnlyOnYes ==
    /\ copy_calls <= 1
    /\ copy_calls = 1 =>
          /\ displayed /\ Truthy(generated_password) /\ gpc = "returned"
          /\ copy_choice = <<"y", "e", "s">>
          /\ pc = "done"
    /\ copy_choice # <<"y", "e", "s">> =>
          copy_calls = 0 /\ attempts = <<>> /\ clipboard = <<>>
    /\ (copy_choice = <<"n", "o">>) =>
          (pc = "done" /\ out = <<Msg("Password not copied.")>> \o Closing)
    /\ (displayed /\ copy_choice \notin {<<"y", "e", "s">>, <<"n", "o">>}) =>
          pc \in {"prompt_copy", "crashed"}

C10_Witness ==
    /\ pc = "done" /\ copy_calls = 1 /\ copy_result
    /\ copy_choice = <<"y", "e", "s">>
    /\ clipboard = generated_password.val /\ displayed

====
